---- MODULE Spec2Model ----
(***************************************************************************)
(* Model of go-base-repository: the Unified Query Identifier               *)
(* (pkg/identifier) and the two generic repository facades (pkg/mongo,     *)
(* pkg/postgres) over their Session Factory / Session collaborators.       *)
(*                                                                         *)
(* Two specifications:                                                     *)
(*   SpecIdent  one UnifiedIdentifier driven through its public methods;   *)
(*   Spec       one facade per backend driven through its public methods,  *)
(*              the session being an opaque collaborator whose responses   *)
(*              are chosen by the environment;                             *)
(*   SpecMock   the in-memory repository MockMongoRepository driven        *)
(*              through the same public methods.                           *)
(***************************************************************************)
EXTENDS Integers, Sequences, FiniteSets, TLC

VARIABLES
    ctor,          \* which constructor built the identifier: "mongo" | "postgres"
    uid,           \* the UnifiedIdentifier: [mongoID, postgresID]
    hist,          \* the calls made on uid since construction, oldest first
    out,           \* what the last call on uid returned
    store,         \* the records behind the session
    call,          \* the last facade call: method, backend, ctx and arguments
    created,       \* the ctx values handed to factory.CreateWithContext by that call
    sessionCalls,  \* the session calls issued by that call, in order
    resp,          \* what the session answered
    ret,           \* what the facade returned to its caller
    entities,      \* MockMongoRepository.entities: ObjectID -> entity
    nextID,        \* the next ObjectID primitive.NewObjectID() hands out
    before,        \* MockMongoRepository.entities as the last call found it
    mcall,         \* the last call on the MockMongoRepository
    mret,          \* what that call returned
    repo,          \* one BaseRepository value: its package and its field factory
    procs          \* per goroutine: the facade call it is in and that call's locals

identVars == <<ctor, uid, hist, out>>
facadeVars == <<store, call, created, sessionCalls, resp, ret>>
mockVars == <<entities, nextID, before, mcall, mret>>
concVars == <<repo, procs>>
vars == <<ctor, uid, hist, out, store, call, created, sessionCalls, resp, ret,
          entities, nextID, before, mcall, mret, repo, procs>>

(***************************************************************************)
(* Bounds and input sets                                                   *)
(***************************************************************************)
MaxCalls == 3          \* calls made on one identifier
MaxFilters == 2        \* length of a bulk filter list
MaxEntities == 2       \* records in the store
MaxIDs == 3            \* ObjectIDs handed out to one MockMongoRepository
MaxBatch == 2          \* length of a bulk entity list given to it

Backends == {"mongo", "postgres"}
Fields == {"active", "age"}
Values == {0, 1}
Patterns == {"%a", "%b"}
InLists == {<<0>>, <<0, 1>>}

(***************************************************************************)
(* The native identifiers (mongoIdentifier.IIdentifier and                 *)
(* postgresIdentifier.IIdentifier).  A native identifier holds at most one *)
(* predicate per (field, operator); its extraction is a mapping keyed by   *)
(* field name.                                                             *)
(***************************************************************************)
NIL == [nil |-> TRUE]

NoArgs == [value |-> 0, min |-> 0, max |-> 0, pattern |-> "", values |-> <<>>]

NativeNew == [nil |-> FALSE, preds |-> <<>>]

\* records/overwrites the predicate for (field, op)
NativePut(n, field, op, args) ==
    [n EXCEPT !.preds =
        [k \in (DOMAIN n.preds) \cup {<<field, op>>} |->
            IF k = <<field, op>> THEN args ELSE n.preds[k]]]

NativeEqual(n, field, value) == NativePut(n, field, "eq", [NoArgs EXCEPT !.value = value])
NativeGreaterThan(n, field, value) == NativePut(n, field, "gt", [NoArgs EXCEPT !.value = value])
NativeLessThan(n, field, value) == NativePut(n, field, "lt", [NoArgs EXCEPT !.value = value])
NativeBetween(n, field, min, max) ==
    NativePut(n, field, "between", [NoArgs EXCEPT !.min = min, !.max = max])
NativeLike(n, field, pattern) == NativePut(n, field, "like", [NoArgs EXCEPT !.pattern = pattern])
NativeIn(n, field, values) == NativePut(n, field, "in", [NoArgs EXCEPT !.values = values])

\* the accumulated predicates as a mapping field -> (operator -> arguments)
NativeExtract(n) ==
    LET fs == {k[1] : k \in DOMAIN n.preds}
    IN  [f \in fs |->
            [op \in {k[2] : k \in {x \in DOMAIN n.preds : x[1] = f}} |-> n.preds[<<f, op>>]]]

NativeToBSON(n) == NativeExtract(n)
NativeToMap(n) == NativeExtract(n)
NativeHas(n, field) == \E k \in DOMAIN n.preds : k[1] = field

EmptyMap == <<>>

(***************************************************************************)
(* UnifiedIdentifier                                                       *)
(***************************************************************************)
NewMongoIdentifier == [mongoID |-> NativeNew, postgresID |-> NIL]

NewPostgresIdentifier == [mongoID |-> NIL, postgresID |-> NativeNew]

\* Equal that builds the missing native identifier instead of skipping it
Equal_InitsMissing(u, field, value) ==
    [mongoID |-> NativeEqual(IF u.mongoID # NIL THEN u.mongoID ELSE NativeNew, field, value),
     postgresID |-> NativeEqual(IF u.postgresID # NIL THEN u.postgresID ELSE NativeNew,
                                field, value)]

\* Equal that forwards to the Mongo identifier only
Equal_MongoOnly(u, field, value) ==
    [mongoID |-> IF u.mongoID # NIL THEN NativeEqual(u.mongoID, field, value) ELSE u.mongoID,
     postgresID |-> u.postgresID]

\* Equal that keeps the first value recorded for a field
Equal_FirstWins(u, field, value) ==
    [mongoID |-> IF u.mongoID # NIL /\ <<field, "eq">> \notin DOMAIN u.mongoID.preds
                 THEN NativeEqual(u.mongoID, field, value) ELSE u.mongoID,
     postgresID |-> IF u.postgresID # NIL /\ <<field, "eq">> \notin DOMAIN u.postgresID.preds
                    THEN NativeEqual(u.postgresID, field, value) ELSE u.postgresID]

Equal(u, field, value) ==
    [mongoID |-> IF u.mongoID # NIL THEN NativeEqual(u.mongoID, field, value) ELSE u.mongoID,
     postgresID |-> IF u.postgresID # NIL THEN NativeEqual(u.postgresID, field, value)
                    ELSE u.postgresID]

\* GreaterThan that starts from a new native identifier instead of the held one
GreaterThan_Fresh(u, field, value) ==
    [mongoID |-> IF u.mongoID # NIL THEN NativeGreaterThan(NativeNew, field, value)
                 ELSE u.mongoID,
     postgresID |-> IF u.postgresID # NIL THEN NativeGreaterThan(NativeNew, field, value)
                    ELSE u.postgresID]

GreaterThan(u, field, value) ==
    [mongoID |-> IF u.mongoID # NIL THEN NativeGreaterThan(u.mongoID, field, value)
                 ELSE u.mongoID,
     postgresID |-> IF u.postgresID # NIL THEN NativeGreaterThan(u.postgresID, field, value)
                    ELSE u.postgresID]

\* LessThan that forwards to the native GreaterThan
LessThan_AsGreaterThan(u, field, value) ==
    [mongoID |-> IF u.mongoID # NIL THEN NativeGreaterThan(u.mongoID, field, value)
                 ELSE u.mongoID,
     postgresID |-> IF u.postgresID # NIL THEN NativeGreaterThan(u.postgresID, field, value)
                    ELSE u.postgresID]

LessThan(u, field, value) ==
    [mongoID |-> IF u.mongoID # NIL THEN NativeLessThan(u.mongoID, field, value)
                 ELSE u.mongoID,
     postgresID |-> IF u.postgresID # NIL THEN NativeLessThan(u.postgresID, field, value)
                    ELSE u.postgresID]

Between(u, field, min, max) ==
    [mongoID |-> IF u.mongoID # NIL THEN NativeBetween(u.mongoID, field, min, max)
                 ELSE u.mongoID,
     postgresID |-> IF u.postgresID # NIL THEN NativeBetween(u.postgresID, field, min, max)
                    ELSE u.postgresID]

Like(u, field, pattern) ==
    [mongoID |-> IF u.mongoID # NIL THEN NativeLike(u.mongoID, field, pattern)
                 ELSE u.mongoID,
     postgresID |-> IF u.postgresID # NIL THEN NativeLike(u.postgresID, field, pattern)
                    ELSE u.postgresID]

In(u, field, values) ==
    [mongoID |-> IF u.mongoID # NIL THEN NativeIn(u.mongoID, field, values)
                 ELSE u.mongoID,
     postgresID |-> IF u.postgresID # NIL THEN NativeIn(u.postgresID, field, values)
                    ELSE u.postgresID]

ToBSON(u) == IF u.mongoID # NIL THEN NativeToBSON(u.mongoID) ELSE EmptyMap

\* ToMap that falls back to the Mongo identifier when there is no PostgreSQL one
ToMap_FromMongo(u) ==
    IF u.postgresID # NIL THEN NativeToMap(u.postgresID)
    ELSE IF u.mongoID # NIL THEN NativeToBSON(u.mongoID)
    ELSE EmptyMap

ToMap(u) == IF u.postgresID # NIL THEN NativeToMap(u.postgresID) ELSE EmptyMap

\* Has without its PostgreSQL branch
Has_MongoOnly(u, field) ==
    IF u.mongoID # NIL THEN NativeHas(u.mongoID, field) ELSE FALSE

Has(u, field) ==
    IF u.mongoID # NIL THEN NativeHas(u.mongoID, field)
    ELSE IF u.postgresID # NIL THEN field \in DOMAIN NativeToMap(u.postgresID)
    ELSE FALSE

\* GetMongoIdentifier handing out an empty native identifier for a nil field
GetMongoIdentifier_NeverNil(u) == IF u.mongoID = NIL THEN NativeNew ELSE u.mongoID

GetMongoIdentifier(u) == u.mongoID

GetPostgresIdentifier(u) == u.postgresID

(***************************************************************************)
(* Calls on an identifier, as values                                       *)
(***************************************************************************)
NoCall == [m |-> "", field |-> "", value |-> 0, min |-> 0, max |-> 0,
           pattern |-> "", values |-> <<>>]

Builders == {"Equal", "GreaterThan", "LessThan", "Between", "Like", "In"}

OpOf(m) ==
    CASE m = "Equal" -> "eq"
      [] m = "GreaterThan" -> "gt"
      [] m = "LessThan" -> "lt"
      [] m = "Between" -> "between"
      [] m = "Like" -> "like"
      [] m = "In" -> "in"

ArgsOf(c) == [value |-> c.value, min |-> c.min, max |-> c.max,
              pattern |-> c.pattern, values |-> c.values]

IsBuilder(c) == c.m \in Builders

ApplyCall(u, c) ==
    CASE c.m = "Equal" -> Equal(u, c.field, c.value)
      [] c.m = "GreaterThan" -> GreaterThan(u, c.field, c.value)
      [] c.m = "LessThan" -> LessThan(u, c.field, c.value)
      [] c.m = "Between" -> Between(u, c.field, c.min, c.max)
      [] c.m = "Like" -> Like(u, c.field, c.pattern)
      [] c.m = "In" -> In(u, c.field, c.values)
      [] OTHER -> u

New(backend) == IF backend = "mongo" THEN NewMongoIdentifier ELSE NewPostgresIdentifier

RECURSIVE Replay(_, _)
Replay(u, calls) ==
    IF calls = <<>> THEN u ELSE Replay(ApplyCall(u, Head(calls)), Tail(calls))

\* the extraction of the backend family the identifier was constructed for
Extract(backend, u) == IF backend = "mongo" THEN ToBSON(u) ELSE ToMap(u)

(***************************************************************************)
(* Return values of identifier calls                                       *)
(***************************************************************************)
NoOut == [kind |-> "none", bool |-> FALSE, map |-> EmptyMap, native |-> NIL]
OutSelf == [NoOut EXCEPT !.kind = "self"]
OutCopy == [NoOut EXCEPT !.kind = "copy"]
OutMap(m) == [NoOut EXCEPT !.kind = "map", !.map = m]
OutBool(b) == [NoOut EXCEPT !.kind = "bool", !.bool = b]
OutNative(n) == [NoOut EXCEPT !.kind = "native", !.native = n]

(***************************************************************************)
(* Values crossing the facade and the session boundary                     *)
(***************************************************************************)
Contexts == {"ctx1", "ctx2"}
Errors == {"e1", "e2"}
NoErr == "nil"
ErrVals == {NoErr} \cup Errors

\* the zero value of the entity type T (a nil pointer entity)
ZeroEntity == [id |-> 0, active |-> 0, age |-> 0]

\* the stores: records 1..n with identities 1..n, n <= MaxEntities
Stores ==
    {st \in UNION {[1..n -> [id : 1..MaxEntities, active : Values, age : {1}]] :
                        n \in 0..MaxEntities} :
        \A i \in DOMAIN st : st[i].id = i}

InputEntities == {[id |-> 0, active |-> 1, age |-> 0], [id |-> 1, active |-> 0, age |-> 1]}
InputLists == {<<>>} \cup {<<e>> : e \in InputEntities}

\* types.SortMap: nil, or a map field -> direction; SortDirection is a string type
NilSort == [nil |-> TRUE]
SortOf(m) == [nil |-> FALSE, m |-> m]
SortAsc == "ASC"
SortDesc == "DESC"
NativeSortAsc == "native.SortAsc"
NativeSortDesc == "native.SortDesc"
SortMaps ==
    {NilSort, SortOf(<<>>), SortOf([f \in {"age"} |-> SortAsc]),
     SortOf([f \in {"age", "active"} |-> IF f = "age" THEN SortDesc ELSE "asc"])}

\* types.QueryParams[T]
QueryParamsSet ==
    [Filter : {ZeroEntity, [id |-> 0, active |-> 1, age |-> 0]}, Limit : {-1, 0, 1},
     Offset : {0, 1}, Sort : SortMaps,
     Include : {<<>>, <<"profile">>}]
NoParams == [Filter |-> ZeroEntity, Limit |-> 0, Offset |-> 0, Sort |-> NilSort,
             Include |-> <<>>]
\* the backend's domain.QueryParams[T]
NoNativeParams == [Filter |-> ZeroEntity, Limit |-> 0, Offset |-> 0, Sort |-> NilSort]

\* types.Identifier values handed to a facade as a filter
FilterCalls ==
    {<<>>,
     <<[NoCall EXCEPT !.m = "Equal", !.field = "active", !.value = 1]>>,
     <<[NoCall EXCEPT !.m = "GreaterThan", !.field = "age", !.value = 0],
       [NoCall EXCEPT !.m = "Equal", !.field = "active", !.value = 0]>>}
UnifiedFilter(u) == [kind |-> "unified", mongoID |-> u.mongoID, postgresID |-> u.postgresID]
NilFilter == [kind |-> "nil", mongoID |-> NIL, postgresID |-> NIL]
ForeignFilter == [kind |-> "foreign", mongoID |-> NIL, postgresID |-> NIL]
Filters ==
    {UnifiedFilter(Replay(New(b), cs)) : b \in Backends, cs \in FilterCalls}
        \cup {NilFilter, ForeignFilter}
FilterLists == UNION {[1..n -> Filters] : n \in 0..MaxFilters}

NoFacadeCall == [method |-> "", backend |-> "", ctx |-> "", id |-> 0, filter |-> NilFilter,
                 filters |-> <<>>, entity |-> ZeroEntity, entities |-> <<>>,
                 params |-> NoParams]
NoSessionCall == [method |-> "", ctx |-> "", id |-> 0, filter |-> NIL, filters |-> <<>>,
                  entity |-> ZeroEntity, entities |-> <<>>, params |-> NoNativeParams]
NoResp == [err |-> NoErr, entity |-> ZeroEntity, entities |-> <<>>, count |-> 0]
NoRet == [panicked |-> FALSE, err |-> NoErr, entity |-> ZeroEntity, entities |-> <<>>,
          count |-> 0]

(***************************************************************************)
(* Values of the in-memory repository (MockMongoRepository and its entity  *)
(* type MockMongoEntity)                                                   *)
(***************************************************************************)
NilObjectID == 0
ZeroTime == "zero"
Now == "now"
NilTime == "nil"
Names == {"a", "b"}
ErrNotFound == "entity not found"

\* the zero MockMongoEntity; also stands for a nil *MockMongoEntity result
NilMockEntity == [ID |-> NilObjectID, Name |-> "", CreatedAt |-> ZeroTime,
                  UpdatedAt |-> ZeroTime, DeletedAt |-> NilTime]

\* entities a caller builds itself, identity unset
NewEntities == {[NilMockEntity EXCEPT !.Name = nm] : nm \in Names}

\* entities a caller got back from the repository (identities below n) and
\* hands in again, possibly renamed
KnownEntities(n) ==
    {[ID |-> id, Name |-> nm, CreatedAt |-> Now, UpdatedAt |-> Now, DeletedAt |-> NilTime] :
        id \in 1..(n - 1), nm \in Names}

BatchLists(S) == UNION {[1..n -> S] : n \in 0..MaxBatch}

MockFilters ==
    {UnifiedFilter(NewMongoIdentifier)}
        \cup {UnifiedFilter(Equal(NewMongoIdentifier, "Name", nm)) : nm \in Names}
MockFilterLists == UNION {[1..n -> MockFilters] : n \in 0..MaxFilters}

NoMockParams == [Filter |-> NilMockEntity, Limit |-> 0, Offset |-> 0, Sort |-> NilSort,
                 Include |-> <<>>]
MockParamsSet == {[NoMockParams EXCEPT !.Limit = l, !.Offset = o] : l \in {0, 1}, o \in {0, 1}}

NoMockCall == [method |-> "", id |-> NilObjectID, filter |-> NilFilter, filters |-> <<>>,
               entity |-> NilMockEntity, entities |-> <<>>, params |-> NoMockParams]
NoMockRet == [err |-> NoErr, entity |-> NilMockEntity, entities |-> <<>>, count |-> 0]

MockIdle ==
    /\ entities = <<>>
    /\ nextID = 1
    /\ before = <<>>
    /\ mcall = NoMockCall
    /\ mret = NoMockRet

\* goroutines that call one facade value, and the factories it may be built on
Goroutines == {"g1", "g2"}
Factories == {"factoryA", "factoryB"}

\* a session: the factory that made it and the ctx it was made for
NoSession == [factory |-> "", ctx |-> ""]
NoLocals == [filter |-> NIL, filters |-> <<>>, params |-> NoNativeParams]
\* a goroutine outside every facade method
NoProc == [pc |-> "idle", call |-> NoFacadeCall, uow |-> NoSession, locals |-> NoLocals,
           on |-> NoSession, sessionCall |-> NoSessionCall, ret |-> NoRet]

\* a facade nobody calls
ConcIdle ==
    /\ repo = [backend |-> "mongo", factory |-> "factoryA"]
    /\ procs = [g \in Goroutines |-> NoProc]

(***************************************************************************)
(* SpecIdent: one identifier and its callers                               *)
(***************************************************************************)
FacadeIdle ==
    /\ store = <<>>
    /\ call = NoFacadeCall
    /\ created = <<>>
    /\ sessionCalls = <<>>
    /\ resp = NoResp
    /\ ret = NoRet

InitIdent ==
    /\ ctor \in Backends
    /\ uid = New(ctor)
    /\ hist = <<>>
    /\ out = NoOut
    /\ FacadeIdle
    /\ MockIdle
    /\ ConcIdle

\* a builder call that leaves its receiver alone and returns a modified copy
Builder_ReturnsCopy(c, u) ==
    /\ Len(hist) < MaxCalls
    /\ uid' = uid
    /\ hist' = Append(hist, c)
    /\ out' = OutCopy
    /\ UNCHANGED <<ctor, facadeVars, mockVars, concVars>>

Builder(c, u) ==
    /\ Len(hist) < MaxCalls
    /\ uid' = u
    /\ hist' = Append(hist, c)
    /\ out' = OutSelf
    /\ UNCHANGED <<ctor, facadeVars, mockVars, concVars>>

Reader(c, o) ==
    /\ Len(hist) < MaxCalls
    /\ hist' = Append(hist, c)
    /\ out' = o
    /\ UNCHANGED <<ctor, uid, facadeVars, mockVars, concVars>>

CallEqual ==
    \E f \in Fields, v \in Values :
        Builder([NoCall EXCEPT !.m = "Equal", !.field = f, !.value = v], Equal(uid, f, v))

CallGreaterThan ==
    \E f \in Fields, v \in Values :
        Builder([NoCall EXCEPT !.m = "GreaterThan", !.field = f, !.value = v],
                GreaterThan(uid, f, v))

CallLessThan ==
    \E f \in Fields, v \in Values :
        Builder([NoCall EXCEPT !.m = "LessThan", !.field = f, !.value = v],
                LessThan(uid, f, v))

CallBetween ==
    \E f \in Fields, lo \in Values, hi \in Values :
        Builder([NoCall EXCEPT !.m = "Between", !.field = f, !.min = lo, !.max = hi],
                Between(uid, f, lo, hi))

CallLike ==
    \E f \in Fields, p \in Patterns :
        Builder([NoCall EXCEPT !.m = "Like", !.field = f, !.pattern = p], Like(uid, f, p))

CallIn ==
    \E f \in Fields, vs \in InLists :
        Builder([NoCall EXCEPT !.m = "In", !.field = f, !.values = vs], In(uid, f, vs))

CallToBSON == Reader([NoCall EXCEPT !.m = "ToBSON"], OutMap(ToBSON(uid)))

CallToMap == Reader([NoCall EXCEPT !.m = "ToMap"], OutMap(ToMap(uid)))

CallHas ==
    \E f \in Fields : Reader([NoCall EXCEPT !.m = "Has", !.field = f], OutBool(Has(uid, f)))

CallGetMongoIdentifier ==
    Reader([NoCall EXCEPT !.m = "GetMongoIdentifier"], OutNative(GetMongoIdentifier(uid)))

CallGetPostgresIdentifier ==
    Reader([NoCall EXCEPT !.m = "GetPostgresIdentifier"],
           OutNative(GetPostgresIdentifier(uid)))

NextIdent ==
    \/ CallEqual
    \/ CallGreaterThan
    \/ CallLessThan
    \/ CallBetween
    \/ CallLike
    \/ CallIn
    \/ CallToBSON
    \/ CallToMap
    \/ CallHas
    \/ CallGetMongoIdentifier
    \/ CallGetPostgresIdentifier

SpecIdent == InitIdent /\ [][NextIdent]_vars

(***************************************************************************)
(* The session (IUnitOfWork) behind each facade: an opaque collaborator.   *)
(* Its answers are chosen by the environment from the sets below; FindAll, *)
(* which takes no filter, answers a success with every stored record.      *)
(***************************************************************************)
EntityResults(st) == {ZeroEntity} \cup {st[i] : i \in DOMAIN st}
ListResults(st) == {<<>>, st}
CountResults(st) == {0, Len(st)}

SessionErrResp == {[NoResp EXCEPT !.err = e] : e \in ErrVals}
SessionEntityResp(st) ==
    {[NoResp EXCEPT !.err = e, !.entity = x] : e \in ErrVals, x \in EntityResults(st)}
SessionListResp(st) ==
    {[NoResp EXCEPT !.err = e, !.entities = l] : e \in ErrVals, l \in ListResults(st)}
SessionPageResp(st) ==
    {[NoResp EXCEPT !.err = e, !.entities = l, !.count = n] :
        e \in ErrVals, l \in ListResults(st), n \in CountResults(st)}
SessionFindAllResp(st) ==
    {[NoResp EXCEPT !.entities = st]}
        \cup {[NoResp EXCEPT !.err = e, !.entities = l] : e \in Errors, l \in ListResults(st)}
SessionEchoResp(es) ==
    {[NoResp EXCEPT !.err = e, !.entities = l] : e \in ErrVals, l \in {<<>>, es}}

(***************************************************************************)
(* The repository facades (pkg/mongo and pkg/postgres BaseRepository).     *)
(* The two differ only in the native identifier they take from a filter.   *)
(***************************************************************************)
\* filter.(*identifier.UnifiedIdentifier) succeeds
IsUnified(filter) == filter.kind = "unified"

\* unifiedFilter.GetMongoIdentifier() / unifiedFilter.GetPostgresIdentifier()
NativeOf(backend, filter) ==
    IF backend = "mongo" THEN GetMongoIdentifier(filter) ELSE GetPostgresIdentifier(filter)

\* the loop filling the native list from the last input to the first
NativeFilters_Reversed(backend, filters) ==
    [i \in 1..Len(filters) |-> NativeOf(backend, filters[Len(filters) + 1 - i])]

\* the loop that fills mongoFilters / postgresFilters
NativeFilters(backend, filters) ==
    [i \in 1..Len(filters) |-> NativeOf(backend, filters[i])]

AllUnified(filters) == \A i \in 1..Len(filters) : IsUnified(filters[i])

\* convertSortMap with a default case that keeps an unknown direction
convertSortMap_KeepsUnknown(sort) ==
    IF sort = NilSort THEN NilSort
    ELSE SortOf([f \in DOMAIN sort.m |->
                    IF sort.m[f] = SortDesc THEN NativeSortDesc ELSE NativeSortAsc])

convertSortMap(sort) ==
    IF sort = NilSort THEN NilSort
    ELSE SortOf([f \in {g \in DOMAIN sort.m : sort.m[g] \in {SortAsc, SortDesc}} |->
                    IF sort.m[f] = SortAsc THEN NativeSortAsc ELSE NativeSortDesc])

\* a descriptor literal that raises a negative Limit to zero
NativeParams_ClampsLimit(params) ==
    [Filter |-> params.Filter, Limit |-> IF params.Limit < 0 THEN 0 ELSE params.Limit,
     Offset |-> params.Offset, Sort |-> convertSortMap(params.Sort)]

\* the native QueryParams built by the two pagination methods
NativeParams(params) ==
    [Filter |-> params.Filter, Limit |-> params.Limit, Offset |-> params.Offset,
     Sort |-> convertSortMap(params.Sort)]

\* int64(count)
Int64(count) == count

\* the caller has no facade call in progress
Idle == call = NoFacadeCall

\* a facade call that obtains a second session from the factory
Facade_TwoSessions(c, scs, r, rt) ==
    /\ call' = c
    /\ created' = <<c.ctx, c.ctx>>
    /\ sessionCalls' = scs
    /\ resp' = r
    /\ ret' = rt
    /\ UNCHANGED <<store, identVars, mockVars, concVars>>

\* one facade call: the session obtained for ctx, the session calls made on it,
\* the session's answer and the values returned
Facade(c, scs, r, rt) ==
    /\ call' = c
    /\ created' = <<c.ctx>>
    /\ sessionCalls' = scs
    /\ resp' = r
    /\ ret' = rt
    /\ UNCHANGED <<store, identVars, mockVars, concVars>>

\* a failed type assertion aborts the call after the session was created
Panics(c) == Facade(c, <<>>, NoResp, [NoRet EXCEPT !.panicked = TRUE])

FindOneById ==
    /\ Idle
    /\ \E b \in Backends, ctx \in Contexts, id \in 1..MaxEntities, r \in SessionEntityResp(store) :
        Facade([NoFacadeCall EXCEPT !.method = "FindOneById", !.backend = b, !.ctx = ctx,
                                    !.id = id],
               <<[NoSessionCall EXCEPT !.method = "FindOneById", !.ctx = ctx, !.id = id]>>,
               r, [NoRet EXCEPT !.entity = r.entity, !.err = r.err])

FindOne ==
    /\ Idle
    /\ \E b \in Backends, ctx \in Contexts, filter \in Filters, r \in SessionEntityResp(store) :
        LET c == [NoFacadeCall EXCEPT !.method = "FindOne", !.backend = b, !.ctx = ctx,
                                      !.filter = filter]
        IN  IF ~IsUnified(filter) THEN Panics(c)
            ELSE Facade(c,
                        <<[NoSessionCall EXCEPT !.method = "FindOneByIdentifier", !.ctx = ctx,
                                                !.filter = NativeOf(b, filter)]>>,
                        r, [NoRet EXCEPT !.entity = r.entity, !.err = r.err])

FindAll ==
    /\ Idle
    /\ \E b \in Backends, ctx \in Contexts, filter \in Filters, r \in SessionFindAllResp(store) :
        Facade([NoFacadeCall EXCEPT !.method = "FindAll", !.backend = b, !.ctx = ctx,
                                    !.filter = filter],
               <<[NoSessionCall EXCEPT !.method = "FindAll", !.ctx = ctx]>>,
               r, [NoRet EXCEPT !.entities = r.entities, !.err = r.err])

FindAllWithPagination ==
    /\ Idle
    /\ \E b \in Backends, ctx \in Contexts, params \in QueryParamsSet,
       r \in SessionPageResp(store) :
        Facade([NoFacadeCall EXCEPT !.method = "FindAllWithPagination", !.backend = b,
                                    !.ctx = ctx, !.params = params],
               <<[NoSessionCall EXCEPT !.method = "FindAllWithPagination", !.ctx = ctx,
                                       !.params = NativeParams(params)]>>,
               r, [NoRet EXCEPT !.entities = r.entities, !.count = Int64(r.count),
                                !.err = r.err])

Insert ==
    /\ Idle
    /\ \E b \in Backends, ctx \in Contexts, entity \in InputEntities,
       r \in SessionEntityResp(store) :
        Facade([NoFacadeCall EXCEPT !.method = "Insert", !.backend = b, !.ctx = ctx,
                                    !.entity = entity],
               <<[NoSessionCall EXCEPT !.method = "Insert", !.ctx = ctx, !.entity = entity]>>,
               r, [NoRet EXCEPT !.entity = r.entity, !.err = r.err])

Update ==
    /\ Idle
    /\ \E b \in Backends, ctx \in Contexts, filter \in Filters, entity \in InputEntities,
       r \in SessionEntityResp(store) :
        LET c == [NoFacadeCall EXCEPT !.method = "Update", !.backend = b, !.ctx = ctx,
                                      !.filter = filter, !.entity = entity]
        IN  IF ~IsUnified(filter) THEN Panics(c)
            ELSE Facade(c,
                        <<[NoSessionCall EXCEPT !.method = "Update", !.ctx = ctx,
                                                !.filter = NativeOf(b, filter),
                                                !.entity = entity]>>,
                        r, [NoRet EXCEPT !.entity = r.entity, !.err = r.err])

Delete ==
    /\ Idle
    /\ \E b \in Backends, ctx \in Contexts, filter \in Filters, r \in SessionErrResp :
        LET c == [NoFacadeCall EXCEPT !.method = "Delete", !.backend = b, !.ctx = ctx,
                                      !.filter = filter]
        IN  IF ~IsUnified(filter) THEN Panics(c)
            ELSE Facade(c,
                        <<[NoSessionCall EXCEPT !.method = "Delete", !.ctx = ctx,
                                                !.filter = NativeOf(b, filter)]>>,
                        r, [NoRet EXCEPT !.err = r.err])

BulkInsert ==
    /\ Idle
    /\ \E b \in Backends, ctx \in Contexts, ents \in InputLists :
        \E r \in SessionEchoResp(ents) :
            Facade([NoFacadeCall EXCEPT !.method = "BulkInsert", !.backend = b, !.ctx = ctx,
                                        !.entities = ents],
                   <<[NoSessionCall EXCEPT !.method = "BulkInsert", !.ctx = ctx,
                                           !.entities = ents]>>,
                   r, [NoRet EXCEPT !.entities = r.entities, !.err = r.err])

BulkUpdate ==
    /\ Idle
    /\ \E b \in Backends, ctx \in Contexts, ents \in InputLists :
        \E r \in SessionEchoResp(ents) :
            Facade([NoFacadeCall EXCEPT !.method = "BulkUpdate", !.backend = b, !.ctx = ctx,
                                        !.entities = ents],
                   <<[NoSessionCall EXCEPT !.method = "BulkUpdate", !.ctx = ctx,
                                           !.entities = ents]>>,
                   r, [NoRet EXCEPT !.entities = r.entities, !.err = r.err])

BulkDelete ==
    /\ Idle
    /\ \E b \in Backends, ctx \in Contexts, filters \in FilterLists, r \in SessionErrResp :
        LET c == [NoFacadeCall EXCEPT !.method = "BulkDelete", !.backend = b, !.ctx = ctx,
                                      !.filters = filters]
        IN  IF ~AllUnified(filters) THEN Panics(c)
            ELSE Facade(c,
                        <<[NoSessionCall EXCEPT !.method = "BulkHardDelete", !.ctx = ctx,
                                                !.filters = NativeFilters(b, filters)]>>,
                        r, [NoRet EXCEPT !.err = r.err])

SoftDelete ==
    /\ Idle
    /\ \E b \in Backends, ctx \in Contexts, filter \in Filters, r \in SessionEntityResp(store) :
        LET c == [NoFacadeCall EXCEPT !.method = "SoftDelete", !.backend = b, !.ctx = ctx,
                                      !.filter = filter]
        IN  IF ~IsUnified(filter) THEN Panics(c)
            ELSE Facade(c,
                        <<[NoSessionCall EXCEPT !.method = "SoftDelete", !.ctx = ctx,
                                                !.filter = NativeOf(b, filter)]>>,
                        r, [NoRet EXCEPT !.entity = r.entity, !.err = r.err])

HardDelete ==
    /\ Idle
    /\ \E b \in Backends, ctx \in Contexts, filter \in Filters, r \in SessionEntityResp(store) :
        LET c == [NoFacadeCall EXCEPT !.method = "HardDelete", !.backend = b, !.ctx = ctx,
                                      !.filter = filter]
        IN  IF ~IsUnified(filter) THEN Panics(c)
            ELSE Facade(c,
                        <<[NoSessionCall EXCEPT !.method = "HardDelete", !.ctx = ctx,
                                                !.filter = NativeOf(b, filter)]>>,
                        r, [NoRet EXCEPT !.entity = r.entity, !.err = r.err])

BulkSoftDelete ==
    /\ Idle
    /\ \E b \in Backends, ctx \in Contexts, filters \in FilterLists, r \in SessionErrResp :
        LET c == [NoFacadeCall EXCEPT !.method = "BulkSoftDelete", !.backend = b, !.ctx = ctx,
                                      !.filters = filters]
        IN  IF ~AllUnified(filters) THEN Panics(c)
            ELSE Facade(c,
                        <<[NoSessionCall EXCEPT !.method = "BulkSoftDelete", !.ctx = ctx,
                                                !.filters = NativeFilters(b, filters)]>>,
                        r, [NoRet EXCEPT !.err = r.err])

BulkHardDelete ==
    /\ Idle
    /\ \E b \in Backends, ctx \in Contexts, filters \in FilterLists, r \in SessionErrResp :
        LET c == [NoFacadeCall EXCEPT !.method = "BulkHardDelete", !.backend = b, !.ctx = ctx,
                                      !.filters = filters]
        IN  IF ~AllUnified(filters) THEN Panics(c)
            ELSE Facade(c,
                        <<[NoSessionCall EXCEPT !.method = "BulkHardDelete", !.ctx = ctx,
                                                !.filters = NativeFilters(b, filters)]>>,
                        r, [NoRet EXCEPT !.err = r.err])

GetTrashed ==
    /\ Idle
    /\ \E b \in Backends, ctx \in Contexts, r \in SessionListResp(store) :
        Facade([NoFacadeCall EXCEPT !.method = "GetTrashed", !.backend = b, !.ctx = ctx],
               <<[NoSessionCall EXCEPT !.method = "GetTrashed", !.ctx = ctx]>>,
               r, [NoRet EXCEPT !.entities = r.entities, !.err = r.err])

GetTrashedWithPagination ==
    /\ Idle
    /\ \E b \in Backends, ctx \in Contexts, params \in QueryParamsSet,
       r \in SessionPageResp(store) :
        Facade([NoFacadeCall EXCEPT !.method = "GetTrashedWithPagination", !.backend = b,
                                    !.ctx = ctx, !.params = params],
               <<[NoSessionCall EXCEPT !.method = "GetTrashedWithPagination", !.ctx = ctx,
                                       !.params = NativeParams(params)]>>,
               r, [NoRet EXCEPT !.entities = r.entities, !.count = Int64(r.count),
                                !.err = r.err])

Restore ==
    /\ Idle
    /\ \E b \in Backends, ctx \in Contexts, filter \in Filters, r \in SessionEntityResp(store) :
        LET c == [NoFacadeCall EXCEPT !.method = "Restore", !.backend = b, !.ctx = ctx,
                                      !.filter = filter]
        IN  IF ~IsUnified(filter) THEN Panics(c)
            ELSE Facade(c,
                        <<[NoSessionCall EXCEPT !.method = "Restore", !.ctx = ctx,
                                                !.filter = NativeOf(b, filter)]>>,
                        r, [NoRet EXCEPT !.entity = r.entity, !.err = r.err])

RestoreAll ==
    /\ Idle
    /\ \E b \in Backends, ctx \in Contexts, r \in SessionErrResp :
        Facade([NoFacadeCall EXCEPT !.method = "RestoreAll", !.backend = b, !.ctx = ctx],
               <<[NoSessionCall EXCEPT !.method = "RestoreAll", !.ctx = ctx]>>,
               r, [NoRet EXCEPT !.err = r.err])

BeginTransaction ==
    /\ Idle
    /\ \E b \in Backends, ctx \in Contexts, r \in SessionErrResp :
        Facade([NoFacadeCall EXCEPT !.method = "BeginTransaction", !.backend = b, !.ctx = ctx],
               <<[NoSessionCall EXCEPT !.method = "BeginTransaction", !.ctx = ctx]>>,
               r, [NoRet EXCEPT !.err = r.err])

\* CommitTransaction that drops the session's error, as RollbackTransaction does
CommitTransaction_DiscardsError ==
    /\ Idle
    /\ \E b \in Backends, ctx \in Contexts, r \in SessionErrResp :
        Facade([NoFacadeCall EXCEPT !.method = "CommitTransaction", !.backend = b, !.ctx = ctx],
               <<[NoSessionCall EXCEPT !.method = "CommitTransaction", !.ctx = ctx]>>,
               r, NoRet)

CommitTransaction ==
    /\ Idle
    /\ \E b \in Backends, ctx \in Contexts, r \in SessionErrResp :
        Facade([NoFacadeCall EXCEPT !.method = "CommitTransaction", !.backend = b, !.ctx = ctx],
               <<[NoSessionCall EXCEPT !.method = "CommitTransaction", !.ctx = ctx]>>,
               r, [NoRet EXCEPT !.err = r.err])

\* RollbackTransaction that returns the session's error, as CommitTransaction does
RollbackTransaction_ReturnsError ==
    /\ Idle
    /\ \E b \in Backends, ctx \in Contexts, r \in SessionErrResp :
        Facade([NoFacadeCall EXCEPT !.method = "RollbackTransaction", !.backend = b,
                                    !.ctx = ctx],
               <<[NoSessionCall EXCEPT !.method = "RollbackTransaction", !.ctx = ctx]>>,
               r, [NoRet EXCEPT !.err = r.err])

RollbackTransaction ==
    /\ Idle
    /\ \E b \in Backends, ctx \in Contexts, r \in SessionErrResp :
        Facade([NoFacadeCall EXCEPT !.method = "RollbackTransaction", !.backend = b,
                                    !.ctx = ctx],
               <<[NoSessionCall EXCEPT !.method = "RollbackTransaction", !.ctx = ctx]>>,
               r, NoRet)

\* the caller takes the returned values; the facade keeps nothing of the call
Return ==
    /\ call # NoFacadeCall
    /\ call' = NoFacadeCall
    /\ created' = <<>>
    /\ sessionCalls' = <<>>
    /\ resp' = NoResp
    /\ ret' = NoRet
    /\ UNCHANGED <<store, identVars, mockVars, concVars>>

Init ==
    /\ ctor = "mongo"
    /\ uid = New(ctor)
    /\ hist = <<>>
    /\ out = NoOut
    /\ store \in Stores
    /\ call = NoFacadeCall
    /\ created = <<>>
    /\ sessionCalls = <<>>
    /\ resp = NoResp
    /\ ret = NoRet
    /\ MockIdle
    /\ ConcIdle

Next ==
    \/ FindOneById
    \/ FindOne
    \/ FindAll
    \/ FindAllWithPagination
    \/ Insert
    \/ Update
    \/ Delete
    \/ BulkInsert
    \/ BulkUpdate
    \/ BulkDelete
    \/ SoftDelete
    \/ HardDelete
    \/ BulkSoftDelete
    \/ BulkHardDelete
    \/ GetTrashed
    \/ GetTrashedWithPagination
    \/ Restore
    \/ RestoreAll
    \/ BeginTransaction
    \/ CommitTransaction
    \/ RollbackTransaction
    \/ Return

Spec == Init /\ [][Next]_vars

(***************************************************************************)
(* SpecMock: MockMongoRepository, the repository of this code base that    *)
(* keeps its records itself.  Go's map iteration order is unspecified, so  *)
(* "the first entity" of a range loop is any entity of the map and a       *)
(* collected slice comes in any order.                                     *)
(***************************************************************************)
\* m.entities[id] = e
Put(es, id, e) == [k \in (DOMAIN es) \cup {id} |-> IF k = id THEN e ELSE es[k]]

\* delete(m.entities, id)
Remove(es, id) == [k \in (DOMAIN es) \ {id} |-> es[k]]

\* the orders in which a range loop can collect the entities S into a slice
Perms(S) ==
    {l \in [1..Cardinality(S) -> S] : \A i, j \in DOMAIN l : i # j => l[i] # l[j]}

\* the keys of the entities with entity.DeletedAt != nil
Trashed(es) == {k \in DOMAIN es : es[k].DeletedAt # NilTime}

\* the loop of BulkInsert without the step to the next identity
RECURSIVE BulkInsertLoop_SameID(_, _, _, _)
BulkInsertLoop_SameID(es, n, todo, done) ==
    IF todo = <<>> THEN [entities |-> es, nextID |-> n, out |-> done]
    ELSE LET e == Head(todo)
             id == IF e.ID = NilObjectID THEN n ELSE e.ID
             stored == [e EXCEPT !.ID = id, !.CreatedAt = Now, !.UpdatedAt = Now]
         IN  BulkInsertLoop_SameID(Put(es, id, stored), n, Tail(todo), Append(done, stored))

\* the loop of BulkInsert: identities for the entities that have none, then store
RECURSIVE BulkInsertLoop(_, _, _, _)
BulkInsertLoop(es, n, todo, done) ==
    IF todo = <<>> THEN [entities |-> es, nextID |-> n, out |-> done]
    ELSE LET e == Head(todo)
             id == IF e.ID = NilObjectID THEN n ELSE e.ID
             stored == [e EXCEPT !.ID = id, !.CreatedAt = Now, !.UpdatedAt = Now]
         IN  BulkInsertLoop(Put(es, id, stored), IF e.ID = NilObjectID THEN n + 1 ELSE n,
                            Tail(todo), Append(done, stored))

\* the loop of BulkUpdate
RECURSIVE BulkUpdateLoop(_, _, _)
BulkUpdateLoop(es, todo, done) ==
    IF todo = <<>> THEN [entities |-> es, out |-> done]
    ELSE LET stored == [Head(todo) EXCEPT !.UpdatedAt = Now]
         IN  BulkUpdateLoop(Put(es, stored.ID, stored), Tail(todo), Append(done, stored))

\* the loop of BulkSoftDelete
BulkSoftDeleteAll(es) == [k \in DOMAIN es |-> [es[k] EXCEPT !.DeletedAt = Now]]

\* RestoreAll that clears one tombstone only
RestoreAllOf_One(es) ==
    IF Trashed(es) = {} THEN es
    ELSE LET k == CHOOSE i \in Trashed(es) : \A j \in Trashed(es) : i <= j
         IN  Put(es, k, [es[k] EXCEPT !.DeletedAt = NilTime])

\* the loop of RestoreAll
RestoreAllOf(es) == [k \in DOMAIN es |-> [es[k] EXCEPT !.DeletedAt = NilTime]]

\* the number of entities of a list that have no identity yet
Unset(l) == Cardinality({i \in DOMAIN l : l[i].ID = NilObjectID})

\* one call on the repository: the map it leaves and the values it returns
Mock(c, es, n, r) ==
    /\ before' = entities
    /\ entities' = es
    /\ nextID' = n
    /\ mcall' = c
    /\ mret' = r

\* the caller has no call on the repository in progress
MockReady == mcall = NoMockCall

NotFound == [NoMockRet EXCEPT !.err = ErrNotFound]

MockFindOneById ==
    /\ MockReady
    /\ \E id \in 1..MaxIDs :
           Mock([NoMockCall EXCEPT !.method = "FindOneById", !.id = id], entities, nextID,
                IF id \in DOMAIN entities THEN [NoMockRet EXCEPT !.entity = entities[id]]
                ELSE NotFound)
    /\ UNCHANGED <<identVars, facadeVars, concVars>>

MockFindOne ==
    /\ MockReady
    /\ \E filter \in MockFilters :
           LET c == [NoMockCall EXCEPT !.method = "FindOne", !.filter = filter]
           IN  IF DOMAIN entities = {} THEN Mock(c, entities, nextID, NotFound)
               ELSE \E k \in DOMAIN entities :
                       Mock(c, entities, nextID, [NoMockRet EXCEPT !.entity = entities[k]])
    /\ UNCHANGED <<identVars, facadeVars, concVars>>

MockFindAll ==
    /\ MockReady
    /\ \E filter \in MockFilters, l \in Perms({entities[k] : k \in DOMAIN entities}) :
           Mock([NoMockCall EXCEPT !.method = "FindAll", !.filter = filter], entities, nextID,
                [NoMockRet EXCEPT !.entities = l])
    /\ UNCHANGED <<identVars, facadeVars, concVars>>

MockFindAllWithPagination ==
    /\ MockReady
    /\ \E params \in MockParamsSet, l \in Perms({entities[k] : k \in DOMAIN entities}) :
           Mock([NoMockCall EXCEPT !.method = "FindAllWithPagination", !.params = params],
                entities, nextID, [NoMockRet EXCEPT !.entities = l, !.count = Int64(Len(l))])
    /\ UNCHANGED <<identVars, facadeVars, concVars>>

MockInsert ==
    /\ MockReady
    /\ \E entity \in NewEntities \cup KnownEntities(nextID) :
           /\ entity.ID = NilObjectID => nextID <= MaxIDs
           /\ LET id == IF entity.ID = NilObjectID THEN nextID ELSE entity.ID
                  stored == [entity EXCEPT !.ID = id, !.CreatedAt = Now, !.UpdatedAt = Now]
              IN  Mock([NoMockCall EXCEPT !.method = "Insert", !.entity = entity],
                       Put(entities, id, stored),
                       IF entity.ID = NilObjectID THEN nextID + 1 ELSE nextID,
                       [NoMockRet EXCEPT !.entity = stored])
    /\ UNCHANGED <<identVars, facadeVars, concVars>>

\* MockUpdate returning the new values without storing them
MockUpdate_NoStore ==
    /\ MockReady
    /\ \E filter \in MockFilters, entity \in KnownEntities(nextID) :
           LET stored == [entity EXCEPT !.UpdatedAt = Now]
           IN  Mock([NoMockCall EXCEPT !.method = "Update", !.filter = filter, !.entity = entity],
                    entities, nextID,
                    [NoMockRet EXCEPT !.entity = stored])
    /\ UNCHANGED <<identVars, facadeVars, concVars>>

MockUpdate ==
    /\ MockReady
    /\ \E filter \in MockFilters, entity \in KnownEntities(nextID) :
           LET stored == [entity EXCEPT !.UpdatedAt = Now]
           IN  Mock([NoMockCall EXCEPT !.method = "Update", !.filter = filter, !.entity = entity],
                    Put(entities, stored.ID, stored), nextID,
                    [NoMockRet EXCEPT !.entity = stored])
    /\ UNCHANGED <<identVars, facadeVars, concVars>>

MockDelete ==
    /\ MockReady
    /\ \E filter \in MockFilters :
           LET c == [NoMockCall EXCEPT !.method = "Delete", !.filter = filter]
           IN  IF DOMAIN entities = {} THEN Mock(c, entities, nextID, NotFound)
               ELSE \E k \in DOMAIN entities : Mock(c, Remove(entities, k), nextID, NoMockRet)
    /\ UNCHANGED <<identVars, facadeVars, concVars>>

MockBulkInsert ==
    /\ MockReady
    /\ \E l \in BatchLists(NewEntities \cup KnownEntities(nextID)) :
           /\ nextID + Unset(l) <= MaxIDs + 1
           /\ LET r == BulkInsertLoop(entities, nextID, l, <<>>)
              IN  Mock([NoMockCall EXCEPT !.method = "BulkInsert", !.entities = l],
                       r.entities, r.nextID, [NoMockRet EXCEPT !.entities = r.out])
    /\ UNCHANGED <<identVars, facadeVars, concVars>>

MockBulkUpdate ==
    /\ MockReady
    /\ \E l \in BatchLists(KnownEntities(nextID)) :
           LET r == BulkUpdateLoop(entities, l, <<>>)
           IN  Mock([NoMockCall EXCEPT !.method = "BulkUpdate", !.entities = l],
                    r.entities, nextID, [NoMockRet EXCEPT !.entities = r.out])
    /\ UNCHANGED <<identVars, facadeVars, concVars>>

MockBulkDelete ==
    /\ MockReady
    /\ \E filters \in MockFilterLists :
           Mock([NoMockCall EXCEPT !.method = "BulkDelete", !.filters = filters],
                <<>>, nextID, NoMockRet)
    /\ UNCHANGED <<identVars, facadeVars, concVars>>

MockSoftDelete ==
    /\ MockReady
    /\ \E filter \in MockFilters :
           LET c == [NoMockCall EXCEPT !.method = "SoftDelete", !.filter = filter]
           IN  IF DOMAIN entities = {} THEN Mock(c, entities, nextID, NotFound)
               ELSE \E k \in DOMAIN entities :
                       LET e == [entities[k] EXCEPT !.DeletedAt = Now]
                       IN  Mock(c, Put(entities, k, e), nextID, [NoMockRet EXCEPT !.entity = e])
    /\ UNCHANGED <<identVars, facadeVars, concVars>>

MockHardDelete ==
    /\ MockReady
    /\ \E filter \in MockFilters :
           LET c == [NoMockCall EXCEPT !.method = "HardDelete", !.filter = filter]
           IN  IF DOMAIN entities = {} THEN Mock(c, entities, nextID, NotFound)
               ELSE \E k \in DOMAIN entities :
                       Mock(c, Remove(entities, k), nextID,
                            [NoMockRet EXCEPT !.entity = entities[k]])
    /\ UNCHANGED <<identVars, facadeVars, concVars>>

MockBulkSoftDelete ==
    /\ MockReady
    /\ \E filters \in MockFilterLists :
           Mock([NoMockCall EXCEPT !.method = "BulkSoftDelete", !.filters = filters],
                BulkSoftDeleteAll(entities), nextID, NoMockRet)
    /\ UNCHANGED <<identVars, facadeVars, concVars>>

MockBulkHardDelete ==
    /\ MockReady
    /\ \E filters \in MockFilterLists :
           Mock([NoMockCall EXCEPT !.method = "BulkHardDelete", !.filters = filters],
                <<>>, nextID, NoMockRet)
    /\ UNCHANGED <<identVars, facadeVars, concVars>>

MockGetTrashed ==
    /\ MockReady
    /\ \E l \in Perms({entities[k] : k \in Trashed(entities)}) :
           Mock([NoMockCall EXCEPT !.method = "GetTrashed"], entities, nextID,
                [NoMockRet EXCEPT !.entities = l])
    /\ UNCHANGED <<identVars, facadeVars, concVars>>

MockGetTrashedWithPagination ==
    /\ MockReady
    /\ \E params \in MockParamsSet, l \in Perms({entities[k] : k \in Trashed(entities)}) :
           Mock([NoMockCall EXCEPT !.method = "GetTrashedWithPagination", !.params = params],
                entities, nextID, [NoMockRet EXCEPT !.entities = l, !.count = Int64(Len(l))])
    /\ UNCHANGED <<identVars, facadeVars, concVars>>

\* Restore that returns a tombstoned entity without clearing its tombstone
MockRestore_KeepsTombstone ==
    /\ MockReady
    /\ \E filter \in MockFilters :
           LET c == [NoMockCall EXCEPT !.method = "Restore", !.filter = filter]
           IN  IF Trashed(entities) = {} THEN Mock(c, entities, nextID, NotFound)
               ELSE \E k \in Trashed(entities) :
                       Mock(c, entities, nextID, [NoMockRet EXCEPT !.entity = entities[k]])
    /\ UNCHANGED <<identVars, facadeVars, concVars>>

MockRestore ==
    /\ MockReady
    /\ \E filter \in MockFilters :
           LET c == [NoMockCall EXCEPT !.method = "Restore", !.filter = filter]
           IN  IF Trashed(entities) = {} THEN Mock(c, entities, nextID, NotFound)
               ELSE \E k \in Trashed(entities) :
                       LET e == [entities[k] EXCEPT !.DeletedAt = NilTime]
                       IN  Mock(c, Put(entities, k, e), nextID, [NoMockRet EXCEPT !.entity = e])
    /\ UNCHANGED <<identVars, facadeVars, concVars>>

MockRestoreAll ==
    /\ MockReady
    /\ Mock([NoMockCall EXCEPT !.method = "RestoreAll"], RestoreAllOf(entities), nextID,
            NoMockRet)
    /\ UNCHANGED <<identVars, facadeVars, concVars>>

MockBeginTransaction ==
    /\ MockReady
    /\ Mock([NoMockCall EXCEPT !.method = "BeginTransaction"], entities, nextID, NoMockRet)
    /\ UNCHANGED <<identVars, facadeVars, concVars>>

MockCommitTransaction ==
    /\ MockReady
    /\ Mock([NoMockCall EXCEPT !.method = "CommitTransaction"], entities, nextID, NoMockRet)
    /\ UNCHANGED <<identVars, facadeVars, concVars>>

MockRollbackTransaction ==
    /\ MockReady
    /\ Mock([NoMockCall EXCEPT !.method = "RollbackTransaction"], entities, nextID, NoMockRet)
    /\ UNCHANGED <<identVars, facadeVars, concVars>>

\* the caller takes the returned values
MockReturn ==
    /\ mcall # NoMockCall
    /\ mcall' = NoMockCall
    /\ mret' = NoMockRet
    /\ before' = entities
    /\ UNCHANGED <<entities, nextID, identVars, facadeVars, concVars>>

InitMock ==
    /\ ctor = "mongo"
    /\ uid = New(ctor)
    /\ hist = <<>>
    /\ out = NoOut
    /\ FacadeIdle
    /\ MockIdle
    /\ ConcIdle

NextMock ==
    \/ MockFindOneById
    \/ MockFindOne
    \/ MockFindAll
    \/ MockFindAllWithPagination
    \/ MockInsert
    \/ MockUpdate
    \/ MockDelete
    \/ MockBulkInsert
    \/ MockBulkUpdate
    \/ MockBulkDelete
    \/ MockSoftDelete
    \/ MockHardDelete
    \/ MockBulkSoftDelete
    \/ MockBulkHardDelete
    \/ MockGetTrashed
    \/ MockGetTrashedWithPagination
    \/ MockRestore
    \/ MockRestoreAll
    \/ MockBeginTransaction
    \/ MockCommitTransaction
    \/ MockRollbackTransaction
    \/ MockReturn

SpecMock == InitMock /\ [][NextMock]_vars

(***************************************************************************)
(* SpecConc: goroutines calling the methods of one facade value at the     *)
(* same time.  A method runs in the steps of its body: it obtains its      *)
(* session from r.factory, translates its filter, filter list or sort map  *)
(* into values of its own, makes its session call and returns.  The steps  *)
(* of different goroutines interleave in any order.                        *)
(***************************************************************************)
PagedMethods == {"FindAllWithPagination", "GetTrashedWithPagination"}
SingleFilterMethods == {"FindOne", "Update", "Delete", "SoftDelete", "HardDelete", "Restore"}
BulkFilterMethods == {"BulkDelete", "BulkSoftDelete", "BulkHardDelete"}

ConcFilters ==
    {UnifiedFilter(Replay(New("mongo"),
                          <<[NoCall EXCEPT !.m = "Equal", !.field = "active", !.value = 1]>>)),
     UnifiedFilter(Replay(New("postgres"),
                          <<[NoCall EXCEPT !.m = "GreaterThan", !.field = "age", !.value = 0]>>)),
     NilFilter}
ConcFilterLists == {<<f, g>> : f \in ConcFilters \ {NilFilter}, g \in ConcFilters}
ConcParams ==
    {[NoParams EXCEPT !.Limit = 1, !.Sort = SortOf([f \in {"age"} |-> SortAsc])],
     [NoParams EXCEPT !.Offset = 1, !.Sort = SortOf([f \in {"active"} |-> SortDesc])]}

\* the calls a goroutine may make on a facade of package b
ConcCalls(b) ==
    {[NoFacadeCall EXCEPT !.method = "FindOneById", !.backend = b, !.ctx = ctx, !.id = 1] :
        ctx \in Contexts}
    \cup {[NoFacadeCall EXCEPT !.method = "Delete", !.backend = b, !.ctx = ctx, !.filter = f] :
            ctx \in Contexts, f \in ConcFilters}
    \cup {[NoFacadeCall EXCEPT !.method = "BulkDelete", !.backend = b, !.ctx = ctx,
                               !.filters = fs] : ctx \in Contexts, fs \in ConcFilterLists}
    \cup {[NoFacadeCall EXCEPT !.method = "FindAllWithPagination", !.backend = b, !.ctx = ctx,
                               !.params = ps] : ctx \in Contexts, ps \in ConcParams}

\* the session method a facade method calls
SessionMethod(m) ==
    CASE m = "FindOne" -> "FindOneByIdentifier"
      [] m = "BulkDelete" -> "BulkHardDelete"
      [] OTHER -> m

\* the call has a filter whose type assertion fails
AssertionFails(c) ==
    \/ c.method \in SingleFilterMethods /\ ~IsUnified(c.filter)
    \/ c.method \in BulkFilterMethods /\ ~AllUnified(c.filters)

\* the values a method computes from its arguments before its session call
Locals(c) ==
    [filter |-> IF c.method \in SingleFilterMethods THEN NativeOf(c.backend, c.filter) ELSE NIL,
     filters |-> IF c.method \in BulkFilterMethods THEN NativeFilters(c.backend, c.filters)
                 ELSE <<>>,
     params |-> IF c.method \in PagedMethods THEN NativeParams(c.params) ELSE NoNativeParams]

\* the session call a method makes with the values l
SessionCallWith(c, l) ==
    [NoSessionCall EXCEPT !.method = SessionMethod(c.method), !.ctx = c.ctx, !.id = c.id,
                          !.filter = l.filter, !.filters = l.filters, !.params = l.params]

\* a goroutine enters a method of the facade
ConcCall ==
    \E g \in Goroutines :
        /\ procs[g].pc = "idle"
        /\ \E c \in ConcCalls(repo.backend) :
                procs' = [procs EXCEPT ![g] = [NoProc EXCEPT !.pc = "create", !.call = c]]
        /\ UNCHANGED <<repo, identVars, facadeVars, mockVars>>

\* uow := r.factory.CreateWithContext(ctx), with a write to r.factory
ConcCreateWithContext_RebindsFactory ==
    \E g \in Goroutines :
        /\ procs[g].pc = "create"
        /\ procs' = [procs EXCEPT ![g].pc = "translate",
                                  ![g].uow = [factory |-> repo.factory,
                                              ctx |-> procs[g].call.ctx]]
        /\ repo' = [repo EXCEPT !.factory = CHOOSE f \in Factories : f # repo.factory]
        /\ UNCHANGED <<identVars, facadeVars, mockVars>>

\* uow := r.factory.CreateWithContext(ctx)
ConcCreateWithContext ==
    \E g \in Goroutines :
        /\ procs[g].pc = "create"
        /\ procs' = [procs EXCEPT ![g].pc = "translate",
                                  ![g].uow = [factory |-> repo.factory,
                                              ctx |-> procs[g].call.ctx]]
        /\ UNCHANGED <<repo, identVars, facadeVars, mockVars>>

\* the type assertions and the translation into the method's own values
ConcTranslate ==
    \E g \in Goroutines :
        /\ procs[g].pc = "translate"
        /\ procs' = IF AssertionFails(procs[g].call)
                    THEN [procs EXCEPT ![g].pc = "done", ![g].ret.panicked = TRUE]
                    ELSE [procs EXCEPT ![g].pc = "delegate",
                                       ![g].locals = Locals(procs[g].call)]
        /\ UNCHANGED <<repo, identVars, facadeVars, mockVars>>

\* return uow.X(ctx, ...)
ConcDelegate ==
    \E g \in Goroutines :
        /\ procs[g].pc = "delegate"
        /\ \E e \in ErrVals :
                procs' = [procs EXCEPT ![g].pc = "done",
                                       ![g].on = procs[g].uow,
                                       ![g].sessionCall =
                                            SessionCallWith(procs[g].call, procs[g].locals),
                                       ![g].ret.err = e]
        /\ UNCHANGED <<repo, identVars, facadeVars, mockVars>>

\* the caller has the method's result
ConcReturn ==
    \E g \in Goroutines :
        /\ procs[g].pc = "done"
        /\ procs' = [procs EXCEPT ![g] = NoProc]
        /\ UNCHANGED <<repo, identVars, facadeVars, mockVars>>

\* NewBaseRepository(factory) of either package
InitConc ==
    /\ ctor = "mongo"
    /\ uid = New(ctor)
    /\ hist = <<>>
    /\ out = NoOut
    /\ FacadeIdle
    /\ MockIdle
    /\ repo \in [backend : Backends, factory : Factories]
    /\ procs = [g \in Goroutines |-> NoProc]

NextConc ==
    \/ ConcCall
    \/ ConcCreateWithContext
    \/ ConcTranslate
    \/ ConcDelegate
    \/ ConcReturn

SpecConc == InitConc /\ [][NextConc]_vars

(***************************************************************************)
(* Properties of the facades (checked under Spec)                          *)
(***************************************************************************)
\* value v satisfies the predicate (op, a); Like is left out: the records of this
\* model have no string field
Sat(v, op, a) ==
    CASE op = "eq" -> v = a.value
      [] op = "gt" -> v > a.value
      [] op = "lt" -> v < a.value
      [] op = "between" -> a.min <= v /\ v <= a.max
      [] op = "in" -> \E i \in DOMAIN a.values : a.values[i] = v

\* record e satisfies every predicate of the extraction x
Matches(e, x) == \A f \in DOMAIN x : \A op \in DOMAIN x[f] : Sat(e[f], op, x[f][op])

Range(seq) == {seq[i] : i \in DOMAIN seq}

\* C1: a successful FindAll(ctx, filter) returns exactly the stored records that
\* match the predicates of the filter.
C1_FindAllReturnsExactlyTheMatches ==
    (call.method = "FindAll" /\ IsUnified(call.filter) /\ ret.err = NoErr) =>
        Range(ret.entities)
            = {e \in Range(store) : Matches(e, Extract(call.backend, call.filter))}

\* C2: RollbackTransaction(ctx) calls the session's RollbackTransaction exactly
\* once and returns a nil error whatever the session answered.
C2_RollbackAlwaysNil ==
    call.method = "RollbackTransaction" =>
        /\ Len(sessionCalls) = 1
        /\ sessionCalls[1].method = "RollbackTransaction"
        /\ sessionCalls[1].ctx = call.ctx
        /\ ret = NoRet

C2_Witness ==
    /\ call.method = "RollbackTransaction"
    /\ call.backend = "postgres"
    /\ resp.err = "e1"
    /\ ret.err = NoErr

\* C3: for every operation other than RollbackTransaction, an error answered by
\* the session is returned as it is, with the session's other result values,
\* after a single session call.
C3_ErrorsPassThrough ==
    (call.method \notin {"", "RollbackTransaction"} /\ sessionCalls # <<>>
     /\ resp.err # NoErr) =>
        /\ Len(sessionCalls) = 1
        /\ ~ret.panicked
        /\ ret.err = resp.err
        /\ ret.entity = resp.entity
        /\ ret.entities = resp.entities
        /\ ret.count = resp.count

C3_Witness ==
    /\ call.method = "FindAllWithPagination"
    /\ resp.err = "e2"
    /\ resp.count = 2
    /\ Len(resp.entities) = 2
    /\ ret.err = "e2"
    /\ ret.count = 2

\* C4: BulkDelete(ctx, filters) is routed to the session primitive that Delete
\* uses: the session calls it issues are Delete calls.
C4_BulkDeleteUsesDelete ==
    (call.method = "BulkDelete" /\ ~ret.panicked) =>
        \A i \in DOMAIN sessionCalls : sessionCalls[i].method = "Delete"

FilterMethods ==
    {"FindOne", "Update", "Delete", "SoftDelete", "HardDelete", "Restore",
     "BulkDelete", "BulkSoftDelete", "BulkHardDelete"}

\* C13: for every value of types.Identifier passed as a filter, each method
\* that translates filters reaches its session call without aborting.
C13_FilterTranslationIsTotal ==
    call.method \in FilterMethods =>
        /\ ~ret.panicked
        /\ Len(sessionCalls) = 1

\* C14: the native sort mapping handed to the session has exactly the fields
\* of the input SortMap, each with the native constant of its direction.
C14_SortTranslatedOneToOne ==
    call.method \in PagedMethods =>
        LET in == call.params.Sort
            nat == sessionCalls[1].params.Sort
        IN  IF in = NilSort THEN nat = NilSort
            ELSE /\ nat # NilSort
                 /\ DOMAIN nat.m = DOMAIN in.m
                 /\ \A f \in DOMAIN in.m :
                        /\ nat.m[f] = NativeSortAsc <=> in.m[f] = SortAsc
                        /\ nat.m[f] = NativeSortDesc <=> in.m[f] = SortDesc

C28_ConvertSortMapDropsUnknown ==
    /\ \A sort \in SortMaps :
            LET nat == convertSortMap(sort)
            IN  /\ nat = NilSort <=> sort = NilSort
                /\ sort # NilSort =>
                        /\ DOMAIN nat.m \subseteq DOMAIN sort.m
                        /\ DOMAIN nat.m = {f \in DOMAIN sort.m : sort.m[f] \in {SortAsc, SortDesc}}
                        /\ DOMAIN sort.m = {} => nat = SortOf(<<>>)
                        /\ \A f \in DOMAIN nat.m :
                                nat.m[f] = IF sort.m[f] = SortAsc THEN NativeSortAsc
                                           ELSE NativeSortDesc
    /\ call.method \in PagedMethods =>
            sessionCalls[1].params.Sort = convertSortMap(call.params.Sort)

\* a call whose native sort mapping is non-empty and strictly smaller than
\* the SortMap passed
C28_Witness ==
    /\ call.method \in PagedMethods
    /\ call.params.Sort # NilSort
    /\ sessionCalls[1].params.Sort # NilSort
    /\ DOMAIN sessionCalls[1].params.Sort.m # {}
    /\ DOMAIN sessionCalls[1].params.Sort.m # DOMAIN call.params.Sort.m
    /\ DOMAIN sessionCalls[1].params.Sort.m \subseteq DOMAIN call.params.Sort.m

\* C29: the native descriptor of FindAllWithPagination and of
\* GetTrashedWithPagination has the Filter, Limit and Offset of the input
\* descriptor, whatever their values, and no Include: the session call is
\* the same for every input descriptor that differs only in Include.
C29_IncludeNotForwarded ==
    call.method \in PagedMethods =>
        /\ Len(sessionCalls) = 1
        /\ sessionCalls[1].params.Filter = call.params.Filter
        /\ sessionCalls[1].params.Limit = call.params.Limit
        /\ sessionCalls[1].params.Offset = call.params.Offset
        /\ DOMAIN sessionCalls[1].params = {"Filter", "Limit", "Offset", "Sort"}
        /\ \A include \in {<<>>, <<"profile">>} :
                sessionCalls[1] =
                    [NoSessionCall EXCEPT !.method = call.method, !.ctx = call.ctx,
                        !.params = NativeParams([call.params EXCEPT !.Include = include])]

C29_Witness ==
    /\ call.method = "GetTrashedWithPagination"
    /\ call.params.Include = <<"profile">>
    /\ call.params.Limit = -1
    /\ call.params.Offset = 1
    /\ call.params.Filter # ZeroEntity
    /\ sessionCalls[1].params.Limit = -1
    /\ sessionCalls[1].params.Filter = call.params.Filter

\* the filters built with the constructor of the family that is not backend's
OtherFamilyFilters(backend) ==
    {UnifiedFilter(Replay(New(b), cs)) : b \in Backends \ {backend}, cs \in FilterCalls}

\* C30: a facade given a filter built with the other family's constructor
\* does not abort, hands the session a nil native filter, so that none of the
\* filter's recorded predicates reaches the session, and returns the
\* session's error; in a bulk call this holds of each such element.
C30_OtherFamilyFilterBecomesNil ==
    /\ (/\ call.method \in FilterMethods
        /\ call.filter \in OtherFamilyFilters(call.backend)
        /\ call.filters = <<>>) =>
            /\ ~ret.panicked
            /\ Len(sessionCalls) = 1
            /\ sessionCalls[1].filter = NIL
            /\ ret.err = resp.err
    /\ (call.method \in FilterMethods /\ call.filters # <<>> /\ AllUnified(call.filters)) =>
            /\ ~ret.panicked
            /\ Len(sessionCalls) = 1
            /\ ret.err = resp.err
            /\ \A i \in 1..Len(call.filters) :
                    call.filters[i] \in OtherFamilyFilters(call.backend) =>
                        sessionCalls[1].filters[i] = NIL

C30_Witness ==
    /\ call.method = "BulkSoftDelete"
    /\ call.backend = "mongo"
    /\ Len(call.filters) = 2
    /\ call.filters[1] \in OtherFamilyFilters("mongo")
    /\ ToMap(call.filters[1]) # EmptyMap
    /\ call.filters[2] \in OtherFamilyFilters("postgres")
    /\ sessionCalls[1].filters[1] = NIL
    /\ sessionCalls[1].filters[2] # NIL

(***************************************************************************)
(* Properties of concurrent facade calls (checked under SpecConc)          *)
(***************************************************************************)
\* what goroutine g holds is determined by its own call and the facade's field
OwnValuesOnly(g) ==
    LET p == procs[g]
    IN  /\ p.pc \in {"translate", "delegate", "done"} =>
                p.uow = [factory |-> repo.factory, ctx |-> p.call.ctx]
        /\ p.pc = "delegate" => p.locals = Locals(p.call)
        /\ p.pc = "done" =>
                /\ p.ret.panicked <=> AssertionFails(p.call)
                /\ ~p.ret.panicked =>
                        /\ p.on = p.uow
                        /\ p.sessionCall = SessionCallWith(p.call, Locals(p.call))

\* C24: under every interleaving of the goroutines' steps no step writes the
\* facade's field factory, and every call works on the session made by that
\* factory for its own ctx and hands the session the translation of its own
\* filter, filter list or sort map, whatever the other goroutines are doing.
C24_ConcurrentCallsShareNothing ==
    /\ [](\A g \in Goroutines : OwnValuesOnly(g))
    /\ [][repo' = repo]_vars

\* two calls with different ctx and different filters in flight together, one
\* already returned from its session call while the other is about to make its
C24_Witness ==
    /\ procs["g1"].pc = "done"
    /\ procs["g2"].pc = "delegate"
    /\ procs["g1"].call.method = "Delete"
    /\ procs["g2"].call.method = "Delete"
    /\ procs["g1"].call.ctx # procs["g2"].call.ctx
    /\ procs["g1"].sessionCall.filter # procs["g2"].locals.filter
    /\ procs["g1"].sessionCall.filter # NIL
    /\ procs["g1"].on.ctx = procs["g1"].call.ctx

(***************************************************************************)
(* Properties of the in-memory repository (checked under SpecMock)         *)
(***************************************************************************)
MockOk(m) == mcall.method = m /\ mret.err = NoErr

\* the keys of the entities of es that the filter matches
Matched(es, filter) == {k \in DOMAIN es : Matches(es[k], ToBSON(filter))}

Max(a, b) == IF a >= b THEN a ELSE b

\* C15: a page asked for with limit L >= 1 and offset O holds at most L
\* entities and no more than there are from position O on, and its total is
\* the number of all matches (all entities, or all tombstoned entities for
\* GetTrashedWithPagination).
C15_PageHoldsAtMostLimit ==
    (mcall.method \in PagedMethods /\ mret.err = NoErr /\ mcall.params.Limit >= 1) =>
        LET total == IF mcall.method = "FindAllWithPagination"
                     THEN Cardinality(DOMAIN entities)
                     ELSE Cardinality(Trashed(entities))
        IN  /\ Len(mret.entities) <= mcall.params.Limit
            /\ Len(mret.entities) <= Max(total - mcall.params.Offset, 0)
            /\ mret.count = total

\* C16: the entity a successful SoftDelete acted on is among the tombstoned
\* entities GetTrashed collects, the entity a successful Restore acted on is
\* not, and GetTrashed returns exactly the entities that are tombstoned.
C16_SoftDeleteLifecycle ==
    /\ MockOk("SoftDelete") =>
            /\ mret.entity.ID \in Trashed(entities)
            /\ entities[mret.entity.ID] = mret.entity
    /\ MockOk("Restore") =>
            /\ mret.entity.ID \in Trashed(before)
            /\ mret.entity.ID \in DOMAIN entities
            /\ mret.entity.ID \notin Trashed(entities)
    /\ MockOk("GetTrashed") =>
            /\ Range(mret.entities)
                    = {entities[k] : k \in {i \in DOMAIN entities :
                                                entities[i].DeletedAt # NilTime}}
            /\ Len(mret.entities) = Cardinality(Range(mret.entities))

C16_Witness ==
    /\ MockOk("Restore")
    /\ Cardinality(Trashed(before)) = 2
    /\ Trashed(entities) = Trashed(before) \ {mret.entity.ID}
    /\ Cardinality(Trashed(entities)) = 1

\* C17: after RestoreAll no entity is tombstoned, every record is still
\* there with nothing but its tombstone changed, and a second RestoreAll
\* would leave the store as it is.
C17_RestoreAllIdempotent ==
    mcall.method = "RestoreAll" =>
        /\ mret.err = NoErr
        /\ Trashed(entities) = {}
        /\ DOMAIN entities = DOMAIN before
        /\ \A k \in DOMAIN before : entities[k] = [before[k] EXCEPT !.DeletedAt = NilTime]
        /\ RestoreAllOf(entities) = entities

C17_Witness ==
    /\ mcall.method = "RestoreAll"
    /\ Cardinality(Trashed(before)) = 2
    /\ Cardinality(DOMAIN before) = 3
    /\ Trashed(entities) = {}

\* C18: a successful SoftDelete(ctx, filter) returns an entity with a
\* deletion timestamp, keeps the set of stored identities, and changes the
\* tombstone state of no entity that the filter does not match.
C18_SoftDeleteFrame ==
    MockOk("SoftDelete") =>
        /\ mret.entity.DeletedAt # NilTime
        /\ DOMAIN entities = DOMAIN before
        /\ \A k \in (DOMAIN before) \ Matched(before, mcall.filter) :
                entities[k].DeletedAt = before[k].DeletedAt

\* C19: after a successful HardDelete(ctx, filter) the entity the filter
\* matched (taken here only when it matched exactly one) is in the store no
\* more, tombstoned or not; after BulkHardDelete none of the matched entities
\* is; Restore and RestoreAll bring no removed record back.
C19_HardDeleteRemovesMatched ==
    /\ MockOk("HardDelete") =>
            \A k \in DOMAIN before :
                Matched(before, mcall.filter) = {k} =>
                    /\ k \notin DOMAIN entities
                    /\ k \notin Trashed(entities)
    /\ MockOk("BulkHardDelete") =>
            \A i \in DOMAIN mcall.filters :
                Matched(before, mcall.filters[i]) \cap DOMAIN entities = {}
    /\ mcall.method \in {"Restore", "RestoreAll"} => DOMAIN entities \subseteq DOMAIN before

\* C20: a successful BulkInsert of N entities without identity returns N
\* entities whose identities are set, pairwise distinct and not in the store
\* before the call; a successful Insert of an entity without identity
\* returns it with its identity set.
C20_BulkInsertAssignsDistinctIDs ==
    /\ (/\ MockOk("BulkInsert")
        /\ \A i \in DOMAIN mcall.entities : mcall.entities[i].ID = NilObjectID) =>
            /\ Len(mret.entities) = Len(mcall.entities)
            /\ \A i \in DOMAIN mret.entities :
                    /\ mret.entities[i].ID # NilObjectID
                    /\ mret.entities[i].ID \notin DOMAIN before
                    /\ mret.entities[i].ID \in DOMAIN entities
                    /\ \A j \in DOMAIN mret.entities :
                            i # j => mret.entities[i].ID # mret.entities[j].ID
    /\ (MockOk("Insert") /\ mcall.entity.ID = NilObjectID) =>
            /\ mret.entity.ID # NilObjectID
            /\ mret.entity.ID \notin DOMAIN before

C20_Witness ==
    /\ MockOk("BulkInsert")
    /\ Len(mcall.entities) = 2
    /\ \A i \in DOMAIN mcall.entities : mcall.entities[i].ID = NilObjectID
    /\ before # <<>>
    /\ Cardinality(DOMAIN entities) = 3

\* C21: the entity a successful Insert returns is stored under the identity
\* it returns, with the field values given; a successful FindOneById returns
\* what is stored under the identity asked for; after a successful Update
\* whose filter matches exactly the record with the identity the entity
\* carries, that record holds the new values, which is what FindOneById on
\* that identity then returns.
C21_InsertFindUpdateRoundTrip ==
    /\ MockOk("Insert") =>
            /\ mret.entity.ID \in DOMAIN entities
            /\ entities[mret.entity.ID] = mret.entity
            /\ mret.entity.Name = mcall.entity.Name
    /\ MockOk("FindOneById") =>
            /\ mcall.id \in DOMAIN entities
            /\ mret.entity = entities[mcall.id]
            /\ mret.entity.ID = mcall.id
    /\ (MockOk("Update") /\ Matched(before, mcall.filter) = {mcall.entity.ID}) =>
            /\ mcall.entity.ID \in DOMAIN entities
            /\ entities[mcall.entity.ID].Name = mcall.entity.Name
            /\ entities[mcall.entity.ID] = mret.entity

C21_Witness ==
    /\ MockOk("Update")
    /\ Matched(before, mcall.filter) = {mcall.entity.ID}
    /\ before[mcall.entity.ID].Name # mcall.entity.Name
    /\ entities[mcall.entity.ID].Name = mcall.entity.Name

\* C25: after a successful Update(ctx, filter, entity) whose filter matches
\* exactly record a while the entity carries the identity of another stored
\* record b, record a holds the entity's values and record b is as it was.
C25_UpdateFilterGoverns ==
    \A a \in DOMAIN before, b \in DOMAIN before :
        (/\ MockOk("Update")
         /\ Matched(before, mcall.filter) = {a}
         /\ mcall.entity.ID = b
         /\ a # b) =>
            /\ b \in DOMAIN entities
            /\ entities[b] = before[b]
            /\ a \in DOMAIN entities
            /\ entities[a].Name = mcall.entity.Name

\* C26: FindOneById answers with an error when no record has the identity
\* asked for, FindOne answers with an error when no record matches the
\* filter, and neither answers with a nil error and no entity.
C26_AbsentIsNotFound ==
    /\ (mcall.method = "FindOneById" /\ mcall.id \notin DOMAIN before) =>
            mret.err = ErrNotFound
    /\ (mcall.method = "FindOne" /\ Matched(before, mcall.filter) = {}) =>
            mret.err = ErrNotFound
    /\ (mcall.method \in {"FindOneById", "FindOne"} /\ mret.err = NoErr) =>
            mret.entity # NilMockEntity

(***************************************************************************)
(* Properties of the identifier (checked under SpecIdent)                  *)
(***************************************************************************)
BuilderHist == SelectSeq(hist, IsBuilder)

\* the sequence s without its i-th element
Without(s, i) == SubSeq(s, 1, i - 1) \o SubSeq(s, i + 1, Len(s))

\* s[i] is the last call of s with its field and method
IsLast(s, i) ==
    \A k \in (i + 1)..Len(s) : ~(s[k].field = s[i].field /\ s[k].m = s[i].m)

\* the extraction x holds the predicate recorded by builder call c
Holds(x, c) ==
    /\ c.field \in DOMAIN x
    /\ OpOf(c.m) \in DOMAIN x[c.field]
    /\ x[c.field][OpOf(c.m)] = ArgsOf(c)

\* C5: after any sequence of builder and read calls exactly one of mongoID and
\* postgresID is non-nil, and it is the one the constructor selected.
C5_ExactlyOneNative ==
    /\ (uid.mongoID # NIL) # (uid.postgresID # NIL)
    /\ (ctor = "mongo") <=> (uid.mongoID # NIL)
    /\ (ctor = "postgres") <=> (uid.postgresID # NIL)

C5_Witness ==
    /\ Len(hist) = MaxCalls
    /\ \E i, j \in 1..Len(hist) : i < j /\ IsBuilder(hist[i]) /\ ~IsBuilder(hist[j])
    /\ uid.postgresID # NIL

\* C6: immediately after Equal(f, v), Has(f) is true and the extraction of the
\* constructing backend holds the predicate f = v.
C6_EqualThenHas ==
    (Len(hist) > 0 /\ hist[Len(hist)].m = "Equal") =>
        LET c == hist[Len(hist)]
        IN  /\ Has(uid, c.field)
            /\ Holds(Extract(ctor, uid), c)

C6_Witness ==
    /\ Len(hist) >= 2
    /\ hist[Len(hist)].m = "Equal"
    /\ hist[Len(hist)].value = 1
    /\ IsBuilder(hist[1])
    /\ hist[1].field = hist[Len(hist)].field
    /\ ctor = "postgres"
    /\ Has(uid, hist[Len(hist)].field)

\* C7: Has(f) is true exactly when some recorded predicate references f, for
\* every operator and in both backend modes.
C7_HasIffReferenced ==
    \A f \in Fields :
        Has(uid, f) <=> (\E i \in 1..Len(hist) : IsBuilder(hist[i]) /\ hist[i].field = f)

C7_Witness ==
    /\ ctor = "postgres"
    /\ Len(hist) = 1
    /\ hist[1].m = "Between"
    /\ Has(uid, hist[1].field)
    /\ \E f \in Fields : ~Has(uid, f)

\* C8: two predicate calls on distinct fields of a fresh identifier give the
\* same extraction in either order.
C8_DistinctFieldsCommute ==
    LET bh == BuilderHist
    IN  (Len(bh) = 2 /\ bh[1].field # bh[2].field) =>
            Extract(ctor, uid) = Extract(ctor, Replay(New(ctor), <<bh[2], bh[1]>>))

C8_Witness ==
    /\ Len(BuilderHist) = 2
    /\ BuilderHist[1].m = "Equal"
    /\ BuilderHist[2].m = "GreaterThan"
    /\ BuilderHist[1].field # BuilderHist[2].field
    /\ DOMAIN Extract(ctor, uid) = Fields

\* C9: the same operator applied twice in a row to the same field keeps only
\* the last value: the extraction is the one obtained without the first call.
C9_SameOperatorOverwrites ==
    LET bh == BuilderHist
        n == Len(bh)
    IN  (n >= 2 /\ bh[n - 1].m = bh[n].m /\ bh[n - 1].field = bh[n].field) =>
            Extract(ctor, uid) = Extract(ctor, Replay(New(ctor), Without(bh, n - 1)))

C9_Witness ==
    /\ Len(BuilderHist) = 2
    /\ BuilderHist[1].m = "Equal"
    /\ BuilderHist[2].m = "Equal"
    /\ BuilderHist[1].field = BuilderHist[2].field
    /\ BuilderHist[1].value = 1
    /\ BuilderHist[2].value = 0
    /\ Extract(ctor, uid)[BuilderHist[2].field]["eq"].value = 0

\* C10: calls with different operators on the same field all persist: for
\* each operator used on a field that another operator was used on too, the
\* extraction holds the predicate last recorded for it.
C10_DifferentOperatorsPersist ==
    LET bh == BuilderHist
        x == Extract(ctor, uid)
    IN  \A i \in 1..Len(bh) :
            (/\ IsLast(bh, i)
             /\ \E j \in 1..Len(bh) : bh[j].field = bh[i].field /\ bh[j].m # bh[i].m) =>
                Holds(x, bh[i])

C10_Witness ==
    /\ Len(BuilderHist) = 2
    /\ BuilderHist[1].m = "GreaterThan"
    /\ BuilderHist[2].m = "LessThan"
    /\ BuilderHist[1].field = "age"
    /\ BuilderHist[2].field = "age"
    /\ DOMAIN Extract(ctor, uid)["age"] = {"gt", "lt"}

\* C11: the extraction of the backend family that was not selected (ToMap in
\* Mongo mode, ToBSON in Postgres mode) is the empty mapping whatever
\* predicates were added, and a call of it leaves the recorded predicates as
\* the builder calls made them.
C11_OtherFamilyExtractionIsEmpty ==
    /\ ctor = "mongo" => ToMap(uid) = EmptyMap
    /\ ctor = "postgres" => ToBSON(uid) = EmptyMap
    /\ (/\ Len(hist) > 0
        /\ \/ ctor = "mongo" /\ hist[Len(hist)].m = "ToMap"
           \/ ctor = "postgres" /\ hist[Len(hist)].m = "ToBSON") =>
            /\ out = OutMap(EmptyMap)
            /\ uid = Replay(New(ctor), BuilderHist)

C11_Witness ==
    /\ ctor = "mongo"
    /\ Len(hist) = 3
    /\ IsBuilder(hist[1])
    /\ IsBuilder(hist[2])
    /\ hist[3].m = "ToMap"
    /\ out = OutMap(EmptyMap)
    /\ DOMAIN ToBSON(uid) = Fields

\* C12: every builder call returns the identifier it was invoked on and
\* changes it in place: the one identifier holds the predicates of every
\* builder call made through any reference to it.
C12_BuildersReturnReceiver ==
    /\ (Len(hist) > 0 /\ IsBuilder(hist[Len(hist)])) => out = OutSelf
    /\ uid = Replay(New(ctor), BuilderHist)

C12_Witness ==
    /\ Len(hist) = 3
    /\ hist[1].m = "Equal"
    /\ hist[2].m = "Has"
    /\ hist[3].m = "GreaterThan"
    /\ hist[1].field # hist[3].field
    /\ out = OutSelf
    /\ DOMAIN Extract(ctor, uid) = Fields

====
